---- MODULE Spec2Model ----
(***************************************************************************)
(* Model of aten/src/ATen/native/TensorIndexing.cpp: the translation of a  *)
(* list of index descriptors (TensorIndex) into basic views and advanced   *)
(* (gather / scatter) indexing, for reads (get_item) and writes (set_item).*)
(*                                                                         *)
(* A tensor is a record [ident, sizes, stor, addr]: ident is the identity  *)
(* of the view object (is_same compares it), sizes its shape, stor the     *)
(* storage it reads and writes, addr the storage cell of each element in   *)
(* row-major order.  An index tensor (the tensor of a TensorIndex) is a    *)
(* record [dtype, sizes, vals]; an assignment value a record [sizes, vals].*)
(* Dimensions are numbered from 0, as in the source.                       *)
(***************************************************************************)
EXTENDS Integers, Sequences, FiniteSets, TLC

\* Longest descriptor list handed to get_item / set_item.
MaxLen == 2

----------------------------------------------------------------------------
(* Arithmetic on shapes *)

RECURSIVE Prod(_)
Prod(s) == IF s = <<>> THEN 1 ELSE Head(s) * Prod(Tail(s))

\* Product of sizes[from..Len]: the row-major stride in front of dimension from.
Suffix(sizes, from) == Prod(SubSeq(sizes, from, Len(sizes)))

\* 0-based coordinates of the 0-based row-major position n.
Unravel(n, sizes) ==
  [k \in 1..Len(sizes) |-> (n \div Suffix(sizes, k + 1)) % sizes[k]]

RECURSIVE RavelFrom(_, _, _)
RavelFrom(coords, sizes, k) ==
  IF k > Len(sizes) THEN 0
  ELSE coords[k] * Suffix(sizes, k + 1) + RavelFrom(coords, sizes, k + 1)

\* 0-based row-major position of 0-based coordinates.
Ravel(coords, sizes) == RavelFrom(coords, sizes, 1)

Iota(n) == [k \in 1..n |-> k]

RemoveAt(s, p) == SubSeq(s, 1, p - 1) \o SubSeq(s, p + 1, Len(s))

InsertAt(s, p, x) == SubSeq(s, 1, p - 1) \o <<x>> \o SubSeq(s, p, Len(s))

Min2(x, y) == IF x < y THEN x ELSE y

Max2(x, y) == IF x > y THEN x ELSE y

----------------------------------------------------------------------------
(* Index descriptors (TensorIndex) *)

\* Tensor(): the undefined tensor, a hole of the pending advanced index list.
UndefinedTensor == [dtype |-> "Undefined", sizes |-> <<>>, vals |-> <<>>]

IndexTensor(dtype, sizes, vals) == [dtype |-> dtype, sizes |-> sizes, vals |-> vals]

NoSlice == [start |-> 0, stop |-> 0, step |-> 0]

TensorIndex(kind, integer, boolean, slice, tensor) ==
  [kind |-> kind, integer |-> integer, boolean |-> boolean,
   slice |-> slice, tensor |-> tensor]

NoneIndex == TensorIndex("None", 0, FALSE, NoSlice, UndefinedTensor)

EllipsisIndex == TensorIndex("Ellipsis", 0, FALSE, NoSlice, UndefinedTensor)

IntegerIndex(n) == TensorIndex("Integer", n, FALSE, NoSlice, UndefinedTensor)

BooleanIndex(b) == TensorIndex("Boolean", 0, b, NoSlice, UndefinedTensor)

SliceIndex(start, stop, step) ==
  TensorIndex("Slice", 0, FALSE, [start |-> start, stop |-> stop, step |-> step],
              UndefinedTensor)

ArrayIndex(t) == TensorIndex("Tensor", 0, FALSE, NoSlice, t)

is_none(obj) == obj.kind = "None"

is_ellipsis(obj) == obj.kind = "Ellipsis"

is_integer(obj) == obj.kind = "Integer"

is_boolean(obj) == obj.kind = "Boolean"

is_slice(obj) == obj.kind = "Slice"

is_tensor(obj) == obj.kind = "Tensor"

isIntegralType(dtype) == dtype \in {"Long", "Byte", "Bool"}

isMaskType(dtype) == dtype \in {"Byte", "Bool"}

----------------------------------------------------------------------------
(* The tensor collaborator's primitives.  Each view primitive returns a    *)
(* new view object (a fresh ident) on the storage of its argument; the     *)
(* ...OK predicates say when the primitive does not fail.                  *)

Tensor(ident, sizes, stor, addr) ==
  [ident |-> ident, sizes |-> sizes, stor |-> stor, addr |-> addr]

Rank(t) == Len(t.sizes)

is_same(x, y) == x.ident = y.ident

\* alias(view): same storage, same cells, another view object.
Alias(t) == Tensor(t.ident + 1, t.sizes, t.stor, t.addr)

WrapIndex(index, size) == IF index < 0 THEN index + size ELSE index

\* select(view, dim, index): index must lie in [-size, size).
SelectOK(t, dim, index) ==
  /\ 0 <= dim
  /\ dim < Rank(t)
  /\ index >= 0 - t.sizes[dim + 1]
  /\ index < t.sizes[dim + 1]

applySelect(t, dim, index) ==
  LET size  == t.sizes[dim + 1]
      k     == WrapIndex(index, size)
      inner == Suffix(t.sizes, dim + 2)
      outer == Prod(SubSeq(t.sizes, 1, dim))
  IN  Tensor(t.ident + 1, RemoveAt(t.sizes, dim + 1), t.stor,
             [n \in 1..(outer * inner) |->
                t.addr[(((n - 1) \div inner) * size + k) * inner
                       + ((n - 1) % inner) + 1]])

\* slice(view, dim, start, stop, step): half-open, clamped to the dimension.
SliceOK(t, dim, slice) ==
  /\ 0 <= dim
  /\ dim < Rank(t)
  /\ slice.step > 0

applySlice(t, dim, slice) ==
  LET size  == t.sizes[dim + 1]
      s     == Max2(0, Min2(size, WrapIndex(slice.start, size)))
      e     == Max2(s, Min2(size, WrapIndex(slice.stop, size)))
      len   == (e - s + slice.step - 1) \div slice.step
      inner == Suffix(t.sizes, dim + 2)
      outer == Prod(SubSeq(t.sizes, 1, dim))
  IN  Tensor(t.ident + 1, [t.sizes EXCEPT ![dim + 1] = len], t.stor,
             [n \in 1..(outer * len * inner) |->
                LET o == (n - 1) \div (len * inner)
                    r == (n - 1) % (len * inner)
                IN  t.addr[(o * size + s + (r \div inner) * slice.step) * inner
                           + (r % inner) + 1]])

\* unsqueeze(view, dim): a size-1 dimension inserted at dim.
UnsqueezeOK(t, dim) == 0 <= dim /\ dim <= Rank(t)

unsqueeze(t, dim) ==
  Tensor(t.ident + 1, InsertAt(t.sizes, dim + 1, 1), t.stor, t.addr)

\* expand(value, shape): sizes aligned from the right; a size-1 dimension
\* stretches, any other must match.
CanExpand(vsizes, tsizes) ==
  /\ Len(vsizes) <= Len(tsizes)
  /\ \A k \in 1..Len(vsizes) :
       \/ vsizes[k] = 1
       \/ vsizes[k] = tsizes[k + Len(tsizes) - Len(vsizes)]

\* The elements of value (sizes vsizes) expanded to tsizes, row-major.
ExpandVals(vsizes, vals, tsizes) ==
  LET off == Len(tsizes) - Len(vsizes)
  IN  [n \in 1..Prod(tsizes) |->
         LET c == Unravel(n - 1, tsizes)
             v == [k \in 1..Len(vsizes) |->
                     IF vsizes[k] = 1 THEN 0 ELSE c[k + off]]
         IN  vals[Ravel(v, vsizes) + 1]]

\* The storage after writing vals[n] to cell dst[n] for every n.  Two writes
\* to one cell (a repeated index) may land in either order: `pick` is the
\* order, "first" or "last" write wins.
WriteCells(storage, dst, vals, pick) ==
  [c \in 1..Len(storage) |->
     LET hits == {n \in 1..Len(dst) : dst[n] = c}
     IN  IF hits = {} THEN storage[c]
         ELSE IF pick = "first"
              THEN vals[CHOOSE n \in hits : \A m \in hits : n <= m]
              ELSE vals[CHOOSE n \in hits : \A m \in hits : n >= m]]

WriteOrders == {"first", "last"}

\* The elements a tensor reads from memory, row-major.
Values(t, memory) == [n \in 1..Len(t.addr) |-> memory[t.stor][t.addr[n]]]

----------------------------------------------------------------------------
(* The gather / scatter primitive: index(view, indices) and                *)
(* index_put_(view, indices, value).  indices may hold undefined tensors   *)
(* (holes).  A mask of k dimensions stands for k index vectors, the        *)
(* coordinates of its non-zero elements.  Index tensors are vectors here   *)
(* (one dimension) once masks are expanded.                                *)

NonZero(vals) == SelectSeq(Iota(Len(vals)), LAMBDA k : vals[k] # 0)

MaskToIndices(mask) ==
  LET nz == NonZero(mask.vals)
  IN  [j \in 1..Len(mask.sizes) |->
         IndexTensor("Long", <<Len(nz)>>,
                     [n \in 1..Len(nz) |-> Unravel(nz[n] - 1, mask.sizes)[j]])]

RECURSIVE ExpandTensors(_)
ExpandTensors(indices) ==
  IF indices = <<>> THEN <<>>
  ELSE LET h == Head(indices)
       IN  (IF isMaskType(h.dtype) THEN MaskToIndices(h) ELSE <<h>>)
           \o ExpandTensors(Tail(indices))

\* Every mask has the shape of the dimensions it covers; pos is the number
\* of dimensions the earlier entries cover.
RECURSIVE MasksOK(_, _, _)
MasksOK(t, indices, pos) ==
  IF indices = <<>> THEN TRUE
  ELSE LET h == Head(indices)
       IN  IF isMaskType(h.dtype)
           THEN /\ pos + Len(h.sizes) <= Rank(t)
                /\ \A j \in 1..Len(h.sizes) : h.sizes[j] = t.sizes[pos + j]
                /\ MasksOK(t, Tail(indices), pos + Len(h.sizes))
           ELSE MasksOK(t, Tail(indices), pos + 1)

Defined(x) == x.dtype # "Undefined"

\* The positions (1-based dimensions of the view) that carry an index vector.
IndexedDims(ex) == {p \in 1..Len(ex) : Defined(ex[p])}

IndexLens(ex) == {Len(ex[p].vals) : p \in IndexedDims(ex)}

\* The index vectors broadcast together: all of one length, or of length 1.
BroadcastLen(ex) ==
  LET nonOne == IndexLens(ex) \ {1}
  IN  IF nonOne = {} THEN 1 ELSE CHOOSE x \in nonOne : TRUE

\* index / index_put_ fail on an index that is no long, byte or bool tensor,
\* on a mask of another shape than the dimensions it covers, on a list with
\* no index or with more indices than the view has dimensions, on index
\* vectors that do not broadcast, and on an index out of range.
IndexOK(t, indices) ==
  /\ \A p \in 1..Len(indices) :
       Defined(indices[p]) =>
         /\ indices[p].dtype \in {"Long", "Byte", "Bool"}
         /\ indices[p].dtype = "Long" => Len(indices[p].sizes) = 1
  /\ MasksOK(t, indices, 0)
  /\ LET ex == ExpandTensors(indices)
     IN  /\ IndexedDims(ex) # {}
         /\ Len(ex) <= Rank(t)
         /\ Cardinality(IndexLens(ex) \ {1}) <= 1
         /\ \A p \in IndexedDims(ex) : \A n \in 1..Len(ex[p].vals) :
              /\ ex[p].vals[n] >= 0 - t.sizes[p]
              /\ ex[p].vals[n] < t.sizes[p]

\* The shape of the indexing result and, for each of its elements, the cell
\* of the view it stands for.  The indexed dimensions are replaced by the
\* one broadcast dimension: in place when they are adjacent, in front
\* otherwise.
IndexPlan(t, indices) ==
  LET ex     == ExpandTensors(indices)
      D      == IndexedDims(ex)
      first  == CHOOSE p \in D : \A q \in D : p <= q
      last   == CHOOSE p \in D : \A q \in D : p >= q
      adj    == \A p \in first..last : p \in D
      L      == BroadcastLen(ex)
      bpos   == IF adj THEN first ELSE 1
      free   == {p \in 1..Rank(t) : p \notin D}
      outpos == [p \in free |->
                   IF adj THEN (IF p < first THEN p ELSE p - Cardinality(D) + 1)
                   ELSE 1 + Cardinality({q \in free : q <= p})]
      osizes == [k \in 1..(Rank(t) - Cardinality(D) + 1) |->
                   IF k = bpos THEN L
                   ELSE t.sizes[CHOOSE p \in free : outpos[p] = k]]
  IN  [sizes |-> osizes,
       addr  |-> [n \in 1..Prod(osizes) |->
                    LET c == Unravel(n - 1, osizes)
                        s == [p \in 1..Rank(t) |->
                                IF p \in D
                                THEN WrapIndex(
                                       ex[p].vals[IF Len(ex[p].vals) = 1 THEN 1
                                                  ELSE c[bpos] + 1],
                                       t.sizes[p])
                                ELSE c[outpos[p]]]
                    IN  t.addr[Ravel(s, t.sizes) + 1]]]

----------------------------------------------------------------------------
(* TensorIndexing.cpp *)

\* A count that takes every index tensor for a mask: tensor.dim() each.
RECURSIVE count_every_tensor_by_dim(_)
count_every_tensor_by_dim(indices) ==
  IF indices = <<>> THEN 0
  ELSE LET obj == Head(indices)
       IN  (IF is_tensor(obj) THEN Len(obj.tensor.sizes)
            ELSE IF ~is_none(obj) /\ ~is_ellipsis(obj) /\ ~is_boolean(obj)
                 THEN 1
                 ELSE 0)
           + count_every_tensor_by_dim(Tail(indices))

\* The number of dimensions of the source the descriptors consume.
RECURSIVE count_specified_dimensions(_)
count_specified_dimensions(indices) ==
  IF indices = <<>> THEN 0
  ELSE LET obj == Head(indices)
       IN  (IF is_tensor(obj)
            THEN (IF isMaskType(obj.tensor.dtype)
                  THEN Len(obj.tensor.sizes)
                  ELSE 1)
            ELSE IF ~is_none(obj) /\ ~is_ellipsis(obj) /\ ~is_boolean(obj)
                 THEN 1
                 ELSE 0)
           + count_specified_dimensions(Tail(indices))

valueToTensor(v) == [sizes |-> <<>>, vals |-> <<v>>]

\* An indexing tensor that selects the added dimension whatever the boolean.
boolToIndexingTensorFull(value) == IndexTensor("Long", <<1>>, <<0>>)

\* true indexes the added dimension as 0:, false as empty.
boolToIndexingTensor(value) ==
  IF value THEN IndexTensor("Long", <<1>>, <<0>>)
  ELSE IndexTensor("Long", <<0>>, <<>>)

\* The locals of applySlicing: the running result, the cursor dim, the
\* pending advanced indices, and what the call has gone through: err is
\* the error it raised, log the primitives it issued, each with the
\* position of the descriptor that asked for it.
SlicingState(result, dim, outIndices, err, log) ==
  [result |-> result, dim |-> dim, outIndices |-> outIndices,
   err |-> err, log |-> log]

Issue(st, op, at) == Append(st.log, [op |-> op, at |-> at])

Raise(st, e) == [st EXCEPT !.err = e]

\* std::vector::resize: cut, or filled with undefined tensors.
Resize(v, n) == [k \in 1..n |-> IF k <= Len(v) THEN v[k] ELSE UndefinedTensor]

\* A handle_tensor that leaves the cursor where it is.
handle_tensor_keeping_dim(st, tensor) ==
  [st EXCEPT !.outIndices = [Resize(st.outIndices, st.dim + 1)
                               EXCEPT ![st.dim + 1] = tensor]]

handle_tensor(st, tensor) ==
  [st EXCEPT !.outIndices = [Resize(st.outIndices, st.dim + 1)
                               EXCEPT ![st.dim + 1] = tensor],
             !.dim = st.dim + 1]

\* A check that is off by one.
ArityOKOffByOne(specified_dims, selfT) == specified_dims <= Rank(selfT) + 1

\* The check at the head of applySlicing.
ArityOK(specified_dims, selfT) == specified_dims <= Rank(selfT)

\* An Ellipsis that stands for every dimension of the source.
EllipsisSkipAll(selfT, specified_dims) == Rank(selfT)

\* The dimensions an Ellipsis stands for.
EllipsisSkip(selfT, specified_dims) == Rank(selfT) - specified_dims

\* A select after which the cursor moves on, as after a slice.
SelectStepAdvancing(st, index, at) ==
  IF SelectOK(st.result, st.dim, index)
  THEN [st EXCEPT !.result = applySelect(st.result, st.dim, index),
                  !.dim = st.dim + 1,
                  !.log = Issue(st, "select", at)]
  ELSE Raise(st, "primitive")

\* result = applySelect(result, dim, index, ...); dim stays.
SelectStep(st, index, at) ==
  IF SelectOK(st.result, st.dim, index)
  THEN [st EXCEPT !.result = applySelect(st.result, st.dim, index),
                  !.log = Issue(st, "select", at)]
  ELSE Raise(st, "primitive")

\* result = applySlice(result, dim, ...); dim++.
SliceStep(st, slice, at) ==
  IF SliceOK(st.result, st.dim, slice)
  THEN [st EXCEPT !.result = applySlice(st.result, st.dim, slice),
                  !.dim = st.dim + 1,
                  !.log = Issue(st, "slice", at)]
  ELSE Raise(st, "primitive")

\* result = result.unsqueeze(dim).
UnsqueezeStep(st, at) ==
  IF UnsqueezeOK(st.result, st.dim)
  THEN [st EXCEPT !.result = unsqueeze(st.result, st.dim),
                  !.log = Issue(st, "unsqueeze", at)]
  ELSE Raise(st, "primitive")

NoneStep(st, at) ==
  LET u == UnsqueezeStep(st, at)
  IN  IF u.err # "none" THEN u ELSE [u EXCEPT !.dim = u.dim + 1]

BooleanStep(st, value, at) ==
  LET u == UnsqueezeStep(st, at)
  IN  IF u.err # "none" THEN u ELSE handle_tensor(u, boolToIndexingTensor(value))

\* An index tensor: a 0-dimensional integral one is an integer or a boolean,
\* any other is recorded as an advanced index.
TensorStep(st, tensor, at) ==
  IF Len(tensor.sizes) = 0 /\ isIntegralType(tensor.dtype)
  THEN IF ~isMaskType(tensor.dtype)
       THEN SelectStep(st, tensor.vals[1], at)
       ELSE BooleanStep(st, tensor.vals[1] # 0, at)
  ELSE handle_tensor(st, tensor)

\* One turn of the loop of applySlicing, on descriptor obj at position at.
ApplyStep(selfT, specified_dims, st, obj, at) ==
  IF is_integer(obj) THEN SelectStep(st, obj.integer, at)
  ELSE IF is_slice(obj) THEN SliceStep(st, obj.slice, at)
  ELSE IF is_ellipsis(obj)
       THEN [st EXCEPT !.dim = st.dim + EllipsisSkip(selfT, specified_dims)]
  ELSE IF is_none(obj) THEN NoneStep(st, at)
  ELSE IF is_boolean(obj) THEN BooleanStep(st, obj.boolean, at)
  ELSE TensorStep(st, obj.tensor, at)

\* applySlicing up to its loop: the count and the check.
SlicingEntry(selfT, indices) ==
  LET st == SlicingState(selfT, 0, <<>>, "none", <<>>)
  IN  IF ArityOK(count_specified_dimensions(indices), selfT)
      THEN st ELSE Raise(st, "arity")

RECURSIVE SlicingLoop(_, _, _, _)
SlicingLoop(selfT, indices, st, at) ==
  IF at > Len(indices) \/ st.err # "none" THEN st
  ELSE SlicingLoop(selfT, indices,
                   ApplyStep(selfT, count_specified_dimensions(indices), st,
                             indices[at], at),
                   at + 1)

applySlicing(selfT, indices) ==
  SlicingLoop(selfT, indices, SlicingEntry(selfT, indices), 1)

\* Placement is not part of the model: a defined index moves to the view's
\* device and is otherwise the same tensor; a hole stays a hole.
typeConvertIndices(selfT, indices) ==
  [k \in 1..Len(indices) |->
     IF Defined(indices[k]) THEN indices[k] ELSE UndefinedTensor]

\* What a call hands back: the error raised, the tensor returned, whether
\* that tensor is a new array (its addr then names the cells copied into
\* it), and the primitives issued.
Outcome(err, t, fresh, log) == [err |-> err, t |-> t, fresh |-> fresh, log |-> log]

dispatch_index(selfT, indices, log) ==
  LET conv == typeConvertIndices(selfT, indices)
  IN  IF IndexOK(selfT, conv)
      THEN LET plan == IndexPlan(selfT, conv)
           IN  Outcome("none",
                       Tensor(selfT.ident + 1, plan.sizes, selfT.stor, plan.addr),
                       TRUE, Append(log, [op |-> "index", at |-> 0]))
      ELSE Outcome("primitive", selfT, FALSE,
                   Append(log, [op |-> "index", at |-> 0]))

\* The single descriptors get_item handles itself.
GetIsFast(indices) ==
  /\ Len(indices) = 1
  /\ \/ is_none(indices[1])
     \/ is_ellipsis(indices[1])
     \/ is_integer(indices[1])
     \/ is_slice(indices[1])

GetFast(selfT, index) ==
  LET st == SlicingState(selfT, 0, <<>>, "none", <<>>)
      r  == IF is_none(index) THEN UnsqueezeStep(st, 1)
            ELSE IF is_ellipsis(index)
                 THEN [st EXCEPT !.result = Alias(selfT),
                                 !.log = Issue(st, "alias", 1)]
            ELSE IF is_integer(index) THEN SelectStep(st, index.integer, 1)
            ELSE SliceStep(st, index.slice, 1)
  IN  Outcome(r.err, r.result, FALSE, r.log)

\* A get_item that returns what applySlicing returned, the source included.
ShallowCopyOmitted(sliced, selfT) == sliced

\* ensure we return a shallow copy for things like x[...]
ShallowCopy(sliced, selfT) ==
  IF is_same(sliced, selfT) THEN Alias(sliced) ELSE sliced

\* A call that dispatches whatever the pending list holds.
AlwaysDispatch(tensorIndices) == TRUE

\* Whether the call goes on to the advanced-index dispatch.
NeedsDispatch(tensorIndices) == tensorIndices # <<>>

\* get_item after applySlicing.
GetTail(selfT, st) ==
  IF st.err # "none" THEN Outcome(st.err, st.result, FALSE, st.log)
  ELSE IF ~NeedsDispatch(st.outIndices)
       THEN Outcome("none", ShallowCopy(st.result, selfT), FALSE, st.log)
  ELSE dispatch_index(st.result, st.outIndices, st.log)

get_item(selfT, indices) ==
  IF GetIsFast(indices) THEN GetFast(selfT, indices[1])
  ELSE GetTail(selfT, applySlicing(selfT, indices))

\* strip away unit dimensions from the left of 'src'
RECURSIVE slicePrefix1sSize(_)
slicePrefix1sSize(sizes) ==
  IF sizes # <<>> /\ Head(sizes) = 1 THEN slicePrefix1sSize(Tail(sizes))
  ELSE sizes

\* What a write does: the error raised, and the cells written with their
\* values (none when the write did not happen).
Effect(err, stor, addr, vals, log) ==
  [err |-> err, stor |-> stor, addr |-> addr, vals |-> vals, log |-> log]

NoEffect(err, log) == Effect(err, 1, <<>>, <<>>, log)

\* A copy_to that fills the destination before it finds the shapes
\* incompatible.
copy_to_unchecked(dst, src, log) ==
  LET sliced_src_sizes == slicePrefix1sSize(src.sizes)
  IN  IF CanExpand(sliced_src_sizes, dst.sizes)
      THEN Effect("none", dst.stor, dst.addr,
                  ExpandVals(sliced_src_sizes, src.vals, dst.sizes),
                  Append(log, [op |-> "copy", at |-> 0]))
      ELSE Effect("broadcast", dst.stor, dst.addr,
                  [n \in 1..Len(dst.addr) |-> src.vals[1]], log)

\* expand_inplace(dst, src.view(sliced_src_sizes)), then dst.copy_(b_src).
copy_to(dst, src, log) ==
  LET sliced_src_sizes == slicePrefix1sSize(src.sizes)
  IN  IF CanExpand(sliced_src_sizes, dst.sizes)
      THEN Effect("none", dst.stor, dst.addr,
                  ExpandVals(sliced_src_sizes, src.vals, dst.sizes),
                  Append(log, [op |-> "copy", at |-> 0]))
      ELSE NoEffect("broadcast", log)

\* index_put_: the indices are checked, then the value against the shape of
\* the indexing result, then the cells are written.
dispatch_index_put_(selfT, indices, value, log) ==
  LET conv == typeConvertIndices(selfT, indices)
      lg   == Append(log, [op |-> "index_put", at |-> 0])
  IN  IF ~IndexOK(selfT, conv) THEN NoEffect("primitive", lg)
      ELSE LET plan == IndexPlan(selfT, conv)
           IN  IF CanExpand(value.sizes, plan.sizes)
               THEN Effect("none", selfT.stor, plan.addr,
                           ExpandVals(value.sizes, value.vals, plan.sizes), lg)
               ELSE NoEffect("broadcast", lg)

\* The single descriptors set_item handles itself.
SetIsFast(indices) ==
  /\ Len(indices) = 1
  /\ \/ is_boolean(indices[1])
     \/ is_ellipsis(indices[1])
     \/ is_none(indices[1])
     \/ is_integer(indices[1])
     \/ is_slice(indices[1])

\* A set_item without the case for false.
SetSkipsNothing(index) == FALSE

\* do nothing for false
SetSkips(index) == is_boolean(index) /\ ~index.boolean

SetFast(selfT, index, value) ==
  LET st == SlicingState(selfT, 0, <<>>, "none", <<>>)
  IN  IF SetSkips(index) THEN NoEffect("none", <<>>)
      ELSE LET r == IF is_ellipsis(index) THEN st
                    ELSE IF is_none(index) \/ is_boolean(index)
                         THEN UnsqueezeStep(st, 1)
                    ELSE IF is_integer(index)
                         THEN SelectStep(st, index.integer, 1)
                    ELSE SliceStep(st, index.slice, 1)
           IN  IF r.err # "none" THEN NoEffect(r.err, r.log)
               ELSE copy_to(r.result, value, r.log)

\* set_item after applySlicing.
SetTail(st, value) ==
  IF st.err # "none" THEN NoEffect(st.err, st.log)
  ELSE IF ~NeedsDispatch(st.outIndices) THEN copy_to(st.result, value, st.log)
  ELSE dispatch_index_put_(st.result, st.outIndices,
                           [sizes |-> slicePrefix1sSize(value.sizes),
                            vals  |-> value.vals],
                           st.log)

set_item(selfT, indices, value) ==
  IF SetIsFast(indices) THEN SetFast(selfT, indices[1], value)
  ELSE SetTail(applySlicing(selfT, indices), value)

----------------------------------------------------------------------------
(* The inputs *)

\* Shapes of the source tensor, from rank 0 to rank 3.
SourceShapes == {<<>>, <<2>>, <<3>>, <<2, 2>>, <<3, 2>>, <<2, 2, 2>>}

IndexTensors ==
  {IndexTensor("Long", <<2>>, <<0, 1>>),
   IndexTensor("Long", <<2>>, <<1, 1>>),
   IndexTensor("Long", <<>>, <<1>>),
   IndexTensor("Bool", <<>>, <<1>>),
   IndexTensor("Byte", <<>>, <<0>>),
   IndexTensor("Bool", <<2>>, <<1, 0>>),
   IndexTensor("Bool", <<2, 2>>, <<1, 0, 0, 1>>),
   IndexTensor("Float", <<>>, <<1>>)}

\* The Range ":" on dimensions of up to three elements.
Colon == SliceIndex(0, 3, 1)

Descriptors ==
  {NoneIndex, EllipsisIndex, IntegerIndex(1), IntegerIndex(0 - 3),
   BooleanIndex(TRUE), BooleanIndex(FALSE),
   Colon, SliceIndex(1, 3, 2)}
  \cup {ArrayIndex(t) : t \in IndexTensors}

ZeroOne == ArrayIndex(IndexTensor("Long", <<2>>, <<0, 1>>))

\* Longer lists: an Integer, a Range and an index array; two index arrays
\* around a Range; one Integer more than a rank of 2; Ellipsis twice.
LongLists ==
  {<<IntegerIndex(1), Colon, ZeroOne>>,
   <<ZeroOne, Colon, ZeroOne>>,
   <<IntegerIndex(1), IntegerIndex(1), IntegerIndex(1)>>,
   <<EllipsisIndex, EllipsisIndex, IntegerIndex(1)>>,
   <<EllipsisIndex, IntegerIndex(1), EllipsisIndex>>}

\* Every list of up to MaxLen descriptors, and the longer ones.
IndexLists == UNION {[1..n -> Descriptors] : n \in 0..MaxLen} \cup LongLists

\* Assignment values; their elements differ from every element of the source.
ValueTensors ==
  {[sizes |-> <<2>>, vals |-> <<101, 102>>],
   [sizes |-> <<1, 2>>, vals |-> <<101, 102>>],
   [sizes |-> <<3>>, vals |-> <<101, 102, 103>>]}

Scalars == {100}

\* The scalar written through a returned tensor.
Mark == valueToTensor(99)

\* The source: a contiguous tensor on storage 1 whose element at cell c is c.
SourceTensor(shape) == Tensor(0, shape, 1, Iota(Prod(shape)))

InitStorage(shape) == Iota(Prod(shape))

----------------------------------------------------------------------------
(* The state machine: one call of get_item or set_item on the source *)

VARIABLES
  self,            \* the tensor indexed
  mem,             \* the storages: mem[s][c] is the element at cell c of storage s
  op,              \* "none", "get", "set", "set_scalar"
  indices,         \* the descriptor list of the call
  value,           \* the assignment value of a set
  pc,              \* "idle", "entry", "loop", "done", "written"
  i,               \* position of the next descriptor in applySlicing (from 1)
  specified_dims,  \* applySlicing's count
  result,          \* applySlicing's running result
  dim,             \* applySlicing's cursor
  outIndices,      \* the pending advanced indices
  ret,             \* the tensor get_item returned
  err,             \* "none", "arity", "broadcast", "primitive"
  log              \* the primitives issued so far

vars == <<self, mem, op, indices, value, pc, i, specified_dims, result, dim,
          outIndices, ret, err, log>>

slicing == <<i, specified_dims, result, dim, outIndices>>

NoTensor == Tensor(0 - 1, <<>>, 1, <<>>)

Init ==
  /\ self \in {SourceTensor(shape) : shape \in SourceShapes}
  /\ mem = <<InitStorage(self.sizes)>>
  /\ op = "none"
  /\ indices = <<>>
  /\ value = valueToTensor(0)
  /\ pc = "idle"
  /\ i = 1
  /\ specified_dims = 0
  /\ result = self
  /\ dim = 0
  /\ outIndices = <<>>
  /\ ret = NoTensor
  /\ err = "none"
  /\ log = <<>>

\* Tensor::index(indices)
CallGet ==
  /\ pc = "idle"
  /\ \E idx \in IndexLists : indices' = idx
  /\ op' = "get"
  /\ pc' = "entry"
  /\ UNCHANGED <<self, mem, value, slicing, ret, err, log>>

\* Tensor::index_put_(indices, rhs)
CallSet ==
  /\ pc = "idle"
  /\ \E idx \in IndexLists : indices' = idx
  /\ \E v \in ValueTensors : value' = v
  /\ op' = "set"
  /\ pc' = "entry"
  /\ UNCHANGED <<self, mem, slicing, ret, err, log>>

\* Tensor::index_put_(indices, v): set_item(Scalar) makes the value a
\* 0-dimensional tensor and goes on as set_item(Tensor).
CallSetScalar ==
  /\ pc = "idle"
  /\ \E idx \in IndexLists : indices' = idx
  /\ \E v \in Scalars : value' = valueToTensor(v)
  /\ op' = "set_scalar"
  /\ pc' = "entry"
  /\ UNCHANGED <<self, mem, slicing, ret, err, log>>

IsGet == op = "get"

IsSet == op \in {"set", "set_scalar"}

St == SlicingState(result, dim, outIndices, err, log)

\* get_item returns: a view as it is, a gathered array on a storage of its own.
Return(o) ==
  /\ err' = o.err
  /\ log' = o.log
  /\ pc' = "done"
  /\ IF o.err = "none" /\ o.fresh
     THEN /\ mem' = Append(mem, Values(o.t, mem))
          /\ ret' = Tensor(o.t.ident, o.t.sizes, Len(mem) + 1, Iota(Len(o.t.addr)))
     ELSE /\ mem' = mem
          /\ ret' = IF o.err = "none" THEN o.t ELSE NoTensor

\* set_item returns, its write done.
Written(e) ==
  /\ err' = e.err
  /\ log' = e.log
  /\ pc' = "done"
  /\ \E pick \in WriteOrders :
       mem' = [mem EXCEPT ![e.stor] = WriteCells(@, e.addr, e.vals, pick)]

GetFastPath ==
  /\ pc = "entry"
  /\ IsGet
  /\ GetIsFast(indices)
  /\ Return(GetFast(self, indices[1]))
  /\ UNCHANGED <<self, op, indices, value, slicing>>

SetFastPath ==
  /\ pc = "entry"
  /\ IsSet
  /\ SetIsFast(indices)
  /\ Written(SetFast(self, indices[1], value))
  /\ UNCHANGED <<self, op, indices, value, slicing, ret>>

\* applySlicing is entered: the count, the check, the locals.
ApplySlicingBegin ==
  /\ pc = "entry"
  /\ \/ IsGet /\ ~GetIsFast(indices)
     \/ IsSet /\ ~SetIsFast(indices)
  /\ LET st == SlicingEntry(self, indices)
     IN  /\ specified_dims' = count_specified_dimensions(indices)
         /\ err' = st.err
         /\ pc' = IF st.err = "none" THEN "loop" ELSE "done"
         /\ result' = st.result
         /\ dim' = st.dim
         /\ outIndices' = st.outIndices
         /\ i' = 1
  /\ UNCHANGED <<self, mem, op, indices, value, ret, log>>

\* One turn of applySlicing's loop.
ApplySlicingStep ==
  /\ pc = "loop"
  /\ i <= Len(indices)
  /\ LET st == ApplyStep(self, specified_dims, St, indices[i], i)
     IN  /\ result' = st.result
         /\ dim' = st.dim
         /\ outIndices' = st.outIndices
         /\ err' = st.err
         /\ log' = st.log
         /\ pc' = IF st.err = "none" THEN "loop" ELSE "done"
         /\ i' = IF st.err = "none" THEN i + 1 ELSE i
  /\ UNCHANGED <<self, mem, op, indices, value, specified_dims, ret>>

\* get_item after applySlicing returned.
GetReturn ==
  /\ pc = "loop"
  /\ i > Len(indices)
  /\ IsGet
  /\ Return(GetTail(self, St))
  /\ UNCHANGED <<self, op, indices, value, slicing>>

\* set_item after applySlicing returned.
SetReturn ==
  /\ pc = "loop"
  /\ i > Len(indices)
  /\ IsSet
  /\ Written(SetTail(St, value))
  /\ UNCHANGED <<self, op, indices, value, slicing, ret>>

\* The caller assigns a scalar to the whole of the tensor get_item returned:
\* set_item(ret, {Ellipsis}, Mark).
WriteThrough ==
  /\ pc = "done"
  /\ IsGet
  /\ err = "none"
  /\ LET e == SetFast(ret, EllipsisIndex, Mark)
     IN  \E pick \in WriteOrders :
           mem' = [mem EXCEPT ![e.stor] = WriteCells(@, e.addr, e.vals, pick)]
  /\ pc' = "written"
  /\ UNCHANGED <<self, op, indices, value, slicing, ret, err, log>>

Next ==
  \/ CallGet
  \/ CallSet
  \/ CallSetScalar
  \/ GetFastPath
  \/ SetFastPath
  \/ ApplySlicingBegin
  \/ ApplySlicingStep
  \/ GetReturn
  \/ SetReturn
  \/ WriteThrough

Spec == Init /\ [][Next]_vars

----------------------------------------------------------------------------
(* Vocabulary of the claims *)

Finished == pc \in {"done", "written"}

Returned == pc = "done"

Called == op # "none"

\* The source's storage as it was before the call.
Untouched == mem[1] = InitStorage(self.sizes)

\* A single Integer or Range descriptor: get_item and set_item hand it to
\* select / slice themselves, without applySlicing.
SingleSelectOrSlice(idx) ==
  Len(idx) = 1 /\ (is_integer(idx[1]) \/ is_slice(idx[1]))

\* An index array that is not 0-dimensional integral.
IsAdvanced(obj) ==
  is_tensor(obj) /\ ~(Len(obj.tensor.sizes) = 0 /\ isIntegralType(obj.tensor.dtype))

\* A descriptor applySlicing answers with a select or a slice.
NeedsSelectOrSlice(obj) ==
  \/ is_integer(obj)
  \/ is_slice(obj)
  \/ is_tensor(obj) /\ Len(obj.tensor.sizes) = 0 /\ obj.tensor.dtype = "Long"

CountOf(idx, P(_)) == Cardinality({k \in 1..Len(idx) : P(idx[k])})

NotEllipsisNorNone(obj) == ~is_ellipsis(obj) /\ ~is_none(obj)

\* Neither Ellipsis, None nor a boolean (as a descriptor or as a
\* 0-dimensional boolean / byte array).
ConsumesDimension(obj) ==
  /\ NotEllipsisNorNone(obj)
  /\ ~is_boolean(obj)
  /\ ~(is_tensor(obj) /\ Len(obj.tensor.sizes) = 0 /\ isMaskType(obj.tensor.dtype))

EllipsisOnly(idx) == \A k \in 1..Len(idx) : is_ellipsis(idx[k])

IsBasicOp(e) == e.op \in {"select", "slice", "unsqueeze"}

IsDispatch(e) == e.op \in {"index", "index_put"}

----------------------------------------------------------------------------
(* The claims *)

\* C1 as stated: whenever the descriptor list of a finished get or set
\* consumes more dimensions than the source has, lists of length 1
\* included, the call failed with the indexing-arity error.
C1_AsStated ==
  (Returned /\ Called /\ count_specified_dimensions(indices) > Rank(self))
    => err = "arity"

\* C1 amended: whenever the descriptor list of a finished get or set
\* consumes more dimensions than the source has, the call failed with the
\* indexing-arity error and returned or wrote nothing, unless the list is a
\* single Integer or Range descriptor; that one goes to select / slice
\* without the count, and the call fails in that primitive.
C1_ArityError ==
  (Returned /\ Called /\ count_specified_dimensions(indices) > Rank(self))
    => IF SingleSelectOrSlice(indices)
       THEN err = "primitive" /\ specified_dims = 0
       ELSE err = "arity" /\ ret = NoTensor /\ Untouched /\ log = <<>>

\* A set whose single descriptor, a mask of two dimensions on a source of
\* rank below two, failed with the arity error.
C1_Witness ==
  /\ Returned
  /\ IsSet
  /\ Len(indices) = 1
  /\ is_tensor(indices[1])
  /\ count_specified_dimensions(indices) = 2
  /\ Rank(self) < 2
  /\ err = "arity"

C3_EllipsisAliases ==
  (Finished /\ IsGet /\ EllipsisOnly(indices))
    => /\ err = "none"
       /\ ~is_same(ret, self)
       /\ ret.stor = self.stor
       /\ ret.addr = self.addr
       /\ ret.sizes = self.sizes
       /\ pc = "written" => \A c \in 1..Len(self.addr) :
                               mem[self.stor][self.addr[c]] = Mark.vals[1]

\* The result of a[..., ...] on a source of rank 2 has been written through.
C3_Witness ==
  /\ pc = "written"
  /\ indices = <<EllipsisIndex, EllipsisIndex>>
  /\ self.sizes = <<2, 2>>
  /\ mem[1] = <<99, 99, 99, 99>>

\* C4: a set with the single descriptor Boolean(false) returns without an
\* error, whatever the value (a tensor of any shape, a scalar), has issued
\* no primitive (no broadcast of the value is tried) and leaves the
\* elements of the source as they were.
C4_FalseIsNoOp ==
  (Returned /\ IsSet /\ indices = <<BooleanIndex(FALSE)>>)
    => /\ err = "none"
       /\ Untouched
       /\ log = <<>>
       /\ self = SourceTensor(self.sizes)

\* a[False] = v returned for a value of three elements and a source of
\* shape (2, 2), which no broadcast relates.
C4_Witness ==
  /\ Returned
  /\ op = "set"
  /\ indices = <<BooleanIndex(FALSE)>>
  /\ value.sizes = <<3>>
  /\ self.sizes = <<2, 2>>
  /\ err = "none"

\* C5: a get with the single descriptor Boolean(b) returns a tensor of the
\* source's shape behind one more leading dimension, of size 1 for true
\* and 0 for false; for true its elements are the source's.
C5_BooleanShape ==
  (Returned /\ IsGet /\ Len(indices) = 1 /\ is_boolean(indices[1]))
    => /\ err = "none"
       /\ Rank(ret) = Rank(self) + 1
       /\ Tail(ret.sizes) = self.sizes
       /\ ret.sizes[1] = (IF indices[1].boolean THEN 1 ELSE 0)
       /\ indices[1].boolean => Values(ret, mem) = Values(self, mem)

\* a[False] on a source of shape (2, 2) returned a tensor of shape (0, 2, 2).
C5_Witness ==
  /\ Returned
  /\ IsGet
  /\ indices = <<BooleanIndex(FALSE)>>
  /\ self.sizes = <<2, 2>>
  /\ ret.sizes = <<0, 2, 2>>

\* C6: a get on an in-range Integer followed by a non-empty rest, the whole
\* list within the source's rank, ends as the get of the rest on the get of
\* the Integer does: with the same error or, without one, with the same
\* shape and the same elements.
C6_Composition ==
  (/\ Returned
   /\ IsGet
   /\ Len(indices) >= 2
   /\ is_integer(indices[1])
   /\ SelectOK(self, 0, indices[1].integer)
   /\ ArityOK(count_specified_dimensions(indices), self))
    => LET inner == get_item(self, <<indices[1]>>)
           outer == get_item(inner.t, Tail(indices))
       IN  /\ inner.err = "none"
           /\ outer.err = err
           /\ err = "none" => /\ ret.sizes = outer.t.sizes
                              /\ Values(ret, mem) = Values(outer.t, mem)

\* a[1, :, [0, 1]] on a source of shape (2, 2, 2) returned the elements at
\* cells 5 to 8, as a[1][:, [0, 1]] does.
C6_Witness ==
  /\ Returned
  /\ IsGet
  /\ indices = <<IntegerIndex(1), Colon, ZeroOne>>
  /\ self.sizes = <<2, 2, 2>>
  /\ err = "none"
  /\ ret.sizes = <<2, 2>>
  /\ Values(ret, mem) = <<5, 6, 7, 8>>

\* What every turn of applySlicing on a real advanced index does to the
\* pending list and the running result: the array is stored unmodified at
\* position dim of the list, which is resized to dim + 1 (earlier entries
\* kept, holes between), and no view operation is issued.
RecordsIndexAtDim ==
  /\ Len(outIndices') = dim + 1
  /\ outIndices'[dim + 1] = indices[i].tensor
  /\ \A k \in 1..dim :
       outIndices'[k] = (IF k <= Len(outIndices) THEN outIndices[k]
                         ELSE UndefinedTensor)
  /\ result' = result
  /\ log' = log

AdvancedTurn == pc = "loop" /\ i <= Len(indices) /\ IsAdvanced(indices[i])

\* C7 as stated: such a turn records the array at dim and leaves dim
\* unchanged.
C7_AsStated ==
  [][AdvancedTurn => (RecordsIndexAtDim /\ dim' = dim)]_vars

\* C7 amended: such a turn records the array at dim and advances dim by one.
C7_AdvancedIndexRecorded ==
  [][AdvancedTurn => (RecordsIndexAtDim /\ dim' = dim + 1 /\ pc' = "loop")]_vars

\* After a[:, [0, 1]]'s two turns the array sits at position 1 of the
\* pending list, behind a hole, and dim is 2.
C7_Witness ==
  /\ pc = "loop"
  /\ i = 3
  /\ is_slice(indices[1])
  /\ IsAdvanced(indices[2])
  /\ dim = 2
  /\ outIndices = <<UndefinedTensor, indices[2].tensor>>

\* C8: until set's final write the source's elements are as they were, and
\* they still are when set failed with the arity or the broadcast error.
C8_NoPartialWrite ==
  /\ (IsSet /\ pc \in {"entry", "loop"}) => Untouched
  /\ (IsSet /\ Returned /\ err \in {"arity", "broadcast"}) => Untouched

\* A set through the scatter failed with the broadcast error.
C8_Witness ==
  /\ Returned
  /\ IsSet
  /\ err = "broadcast"
  /\ outIndices # <<>>
  /\ Len(log) > 0
  /\ IsDispatch(log[Len(log)])

\* C9: in the primitives a call has issued, the basic steps come in the
\* order of their descriptors, a dispatch is the last entry (so there is at
\* most one, behind every basic step), and it was issued with every
\* descriptor processed and a non-empty pending list.
C9_BasicBeforeDispatch ==
  /\ \A j, k \in 1..Len(log) :
       (j < k /\ IsBasicOp(log[j]) /\ IsBasicOp(log[k])) => log[j].at < log[k].at
  /\ \A j \in 1..Len(log) :
       IsDispatch(log[j]) =>
         /\ j = Len(log)
         /\ Finished
         /\ i = Len(indices) + 1
         /\ outIndices # <<>>

\* a[None, True]: two unsqueezes, then the gather.
C9_Witness ==
  /\ Returned
  /\ IsGet
  /\ Len(log) = 3
  /\ IsBasicOp(log[1])
  /\ IsBasicOp(log[2])
  /\ log[3].op = "index"

AtMostOneEllipsis(idx) == CountOf(idx, is_ellipsis) <= 1

\* The cursor in the loop of applySlicing: within the running result, on
\* one of its dimensions when the next descriptor selects or slices, and
\* behind every pending index.
CursorInRange ==
  (pc = "loop" /\ AtMostOneEllipsis(indices))
    => /\ 0 <= dim
       /\ dim <= Rank(result)
       /\ Len(outIndices) <= dim
       /\ (i <= Len(indices) /\ NeedsSelectOrSlice(indices[i]))
            => dim < Rank(result)

\* C10: for a list within the source's rank and with at most one Ellipsis,
\* the cursor stays in range (see CursorInRange), never decreases, and the
\* pending list only grows, keeping what it held.
C10_CursorInvariant ==
  [][/\ CursorInRange'
     /\ (pc = "loop" /\ pc' = "loop" /\ AtMostOneEllipsis(indices))
          => /\ dim' >= dim
             /\ Len(outIndices') >= Len(outIndices)
             /\ SubSeq(outIndices', 1, Len(outIndices)) = outIndices]_vars

\* a[..., 1] on a source of rank 2: the Ellipsis has moved the cursor to
\* the last dimension, which the Integer selects.
C10_Witness ==
  /\ pc = "loop"
  /\ indices = <<EllipsisIndex, IntegerIndex(1)>>
  /\ Rank(self) = 2
  /\ i = 2
  /\ dim = 1

\* With two Ellipsis descriptors the cursor may leave the running result:
\* this is false of a[..., ...] on a source of rank 1.
CursorInRangeWhateverTheEllipses == pc = "loop" => dim <= Rank(result)

====
